---- MODULE Spec2Model ----
(***************************************************************************)
(* Model of the ESP32 GPS/BLE/WiFi telemetry firmware (MicroPython).       *)
(*                                                                         *)
(*   GPS_WIFI_Blue_3.py   parser with fallback, ring of BLE samples with   *)
(*                        a fill-then-drain trigger, uploader              *)
(*                        (Spec: every sentence; SpecRing: every write)    *)
(*   GPS_WIFI_Blue_4_.py  data_pool of float tuples, uploader  (SpecB4)    *)
(*                                                                         *)
(* Numbers.  float() of a coordinate field is kept as an integer count of  *)
(* 1e-4 units (the fields carry four fractional digits), so 3723.2475 is   *)
(* 37232475.  time.time() is the integer second counter of the port.       *)
(* Strings that the code inspects (fields of a sentence) are sequences of  *)
(* one-character strings.  A BLE text sample is identified by the ordinal  *)
(* of the write event that delivered it.  -0.0 and 0.0 are one value, as   *)
(* they are for every comparison the code makes.                           *)
(***************************************************************************)
EXTENDS Integers, Sequences, FiniteSets, TLC

(***************************************************************************)
(* Bounds of the model.                                                    *)
(***************************************************************************)
\* accepted write events explored per behaviour (GPS_WIFI_Blue_3)
MaxAccepted == 10
\* seconds of device clock explored
MaxTime == 1
\* src/micropython_/GPS_WIFI_Blue_3.py:70 sets list_len = 400; the ring is
\* explored at a reduced capacity, the trigger and the record limit with it
list_len == 4
\* the literal 200 of GPS_WIFI_Blue_3.py:171 (samples between two emissions)
up_len_limit == 2
\* the literal 200 of GPS_WIFI_Blue_3.py:371 (samples carried by one record)
payload_limit == 2

\* write events delivered per behaviour (GPS_WIFI_Blue_4_)
MaxWrites == 12
\* of them, events whose payload is not one 4-byte float
MaxOdd == 1

\* src/micropython_/GPS_WIFI_Blue_4_.py:90
buffer_size == 10
\* the default n of data_pool.get_new, GPS_WIFI_Blue_4_.py:83
get_new_n == 4
\* main(): min_upload_interval = 0.5 s, in tenths of a second
min_upload_interval == 5
max_consecutive_failures == 3
\* upload_data calls in a row that return False
MaxStreak == 12
\* GPS_4G_Blue main(): upload_interval, in seconds (10 in the source, line 392)
upload_interval == 2
\* seconds of clock while main() runs
MaxClock == 4
\* GLL sentences in one UART read
MaxChunk == 2

\* a slot of the pool that holds None
NoneItem == <<-1>>

Min(a, b) == IF a < b THEN a ELSE b

(***************************************************************************)
(* Text helpers: str.split(',') has already been applied, a sentence is    *)
(* the sequence `parts`; Python's parts[k] is parts[k+1] here.             *)
(***************************************************************************)
Digits == {"0", "1", "2", "3", "4", "5", "6", "7", "8", "9"}

DigitVal(c) ==
    CASE c = "0" -> 0 [] c = "1" -> 1 [] c = "2" -> 2 [] c = "3" -> 3
      [] c = "4" -> 4 [] c = "5" -> 5 [] c = "6" -> 6 [] c = "7" -> 7
      [] c = "8" -> 8 [] c = "9" -> 9

\* position of the first "." of s, or Len(s) + 1
DotPos(s) ==
    IF \E i \in DOMAIN s : s[i] = "."
    THEN CHOOSE i \in DOMAIN s : s[i] = "." /\ \A j \in 1..(i - 1) : s[j] /= "."
    ELSE Len(s) + 1

RECURSIVE DecValUpTo(_, _)
\* value of the first n of a run of decimal digits
DecValUpTo(s, n) ==
    IF n = 0 THEN 0 ELSE DecValUpTo(s, n - 1) * 10 + DigitVal(s[n])

\* value of a run of decimal digits
DecVal(s) == DecValUpTo(s, Len(s))

RECURSIVE Pow10(_)
Pow10(n) == IF n = 0 THEN 1 ELSE 10 * Pow10(n - 1)

\* float(s) accepts the text: digits, at most one ".", at least one digit
\* (signs, exponents and blanks do not occur in the fields explored)
IsFloat(s) ==
    LET d == DotPos(s)
        ip == SubSeq(s, 1, d - 1)
        fp == SubSeq(s, d + 1, Len(s))
    IN /\ \A i \in DOMAIN ip : ip[i] \in Digits
       /\ \A i \in DOMAIN fp : fp[i] \in Digits
       /\ Len(ip) + Len(fp) > 0
       /\ Len(fp) <= 4

\* float(s) in units of 1e-4
Float(s) ==
    LET d == DotPos(s)
        ip == SubSeq(s, 1, d - 1)
        fp == SubSeq(s, d + 1, Len(s))
    IN DecVal(ip) * 10000 + DecVal(fp) * Pow10(4 - Len(fp))

\* c in s
Contains(s, c) == \E i \in DOMAIN s : s[i] = c

(***************************************************************************)
(* GLL sentences fed to the parser.                                        *)
(***************************************************************************)
LatFields == { <<"3", "7", "2", "3", ".", "2", "4", "7", "5">>, <<>> }
LonFields == { <<"1", "2", "1", "5", "8", ".", "3", "4", "1", "6">>,
               <<"0", "0", "0", "0", "0", ".", "0", "0", "0", "0">>,
               <<>> }
StatusFields == { <<"A">>, <<"V">> }

GLL(lat, ns, lon, ew, st, n) ==
    SubSeq(<< <<"$", "G", "P", "G", "L", "L">>, lat, ns, lon, ew,
              <<"1", "6", "1", "2", "2", "9">>, st, <<"A", "*", "4", "1">> >>, 1, n)

\* hemisphere letters, one pair per sign of each coordinate
Hemispheres == { << <<"N">>, <<"W">> >>, << <<"S">>, <<"E">> >> }

Sentences ==
    { GLL(lat, h[1], lon, h[2], st, n) :
        lat \in LatFields, h \in Hemispheres, lon \in LonFields,
        st \in StatusFields, n \in 6..8 }

\* "$GPGLL,3723.2475,N,12158.3416,W,161229,A,A*41"
ExampleSentence ==
    GLL(<<"3", "7", "2", "3", ".", "2", "4", "7", "5">>, <<"N">>,
        <<"1", "2", "1", "5", "8", ".", "3", "4", "1", "6">>, <<"W">>, <<"A">>, 8)

\* the sentences of the ring-centred specification: a fix and its loss
RingSentences ==
    { ExampleSentence,
      GLL(<<>>, <<"N">>, <<>>, <<"W">>, <<"V">>, 8) }

VARIABLES
    \* GPS_WIFI_Blue_3 globals
    nmea_x, nmea_y, gps_data_valid, last_x, last_y,
    user_data, list_data, ble_data_received,
    \* BLEService fields
    data_len, up_len,
    \* GPSReader fields
    gps_nmea_x, gps_nmea_y, last_gps_time,
    \* DataUploader class fields
    _last_time_str, _last_time_sec,
    \* the device clock, time.time()
    now,
    \* GPS_WIFI_Blue_4_: pool_data.buffer, pool_data.index
    pool_buffer, pool_index,
    \* whether struct.unpack of the runtime insists on the exact buffer size
    \* (CPython) or accepts a longer buffer (MicroPython, py/modstruct.c)
    struct_exact,
    \* observation of the run, not program state:
    \*   op        the operation that produced the state
    \*   seen      what that operation was given and what it returned
    \*   fix       the coordinates carried by the last valid sentence committed
    \*   run       TRUE while only void sentences followed the last valid one
    \*   accepted  number of write events accepted so far (= ordinal of the
    \*             newest sample)
    \*   emissions number of emissions since the ring was last empty
    \*   emit_at   value of accepted at the last emission
    \*   delivered the samples of the record of the last upload for which
    \*             http_post returned True (GPS_WIFI_Blue_3 and
    \*             GPS_WIFI_Blue_2), <<>> before the first
    \*   writes    number of write events delivered to GPS_WIFI_Blue_4_
    \*   odd       how many of them had a length other than 4 bytes
    \*   seen      of a write event also says whether the handler printed
    \*             to the console and whether it ran rgb_flash (which
    \*             drives the LED and sleeps 4 x 200 ms)
    \*   pushed    the last get_new_n items given to pool_data.append,
    \*             oldest first
    \*   drained_at clock reading when read_gps_data last read a non-empty
    \*             chunk from the UART, -1 before the first
    op, seen, fix, run, accepted, emissions, emit_at, delivered, writes, odd, pushed,
    \* main(): its locals, and where the loop stands
    \*   pc      "top"   before read_gps_data
    \*           "gps"   inside read_gps_data, chunk still to be parsed
    \*           "post"  inside http_post, the record already built
    \*           "sleep" in the sleep that closes the iteration
    \*   chunk   the GLL sentences of the UART read not parsed yet
    \*   intervals are in tenths of a second, times in seconds
    \*   payload the record upload_data holds while http_post runs
    pc, chunk, drained_at, current_time, last_upload_time, current_upload_interval,
    consecutive_failures, max_upload_interval, payload,
    \* observation of the main loop
    \*   streak      upload_data calls that returned False since the last
    \*               one that returned True (or since start-up)
    \*   attempt_at  current_time of the last iteration that called
    \*               http_post, -1 before the first
    \*   succeeded   upload_data returned True in this iteration
    streak, attempt_at, succeeded

gpsVars == <<nmea_x, nmea_y, gps_data_valid, last_x, last_y,
             gps_nmea_x, gps_nmea_y, last_gps_time>>
bleVars == <<user_data, list_data, ble_data_received, data_len, up_len>>
upVars == <<_last_time_str, _last_time_sec>>
obsGps == <<fix, run>>
obsBle == <<accepted, emissions, emit_at, delivered>>
poolVars == <<pool_buffer, pool_index, struct_exact, writes, odd, pushed>>
loopVars == <<current_time, last_upload_time, current_upload_interval,
              consecutive_failures, max_upload_interval, streak, attempt_at,
              succeeded, payload>>
mainVars == <<pc, chunk, drained_at, loopVars>>
vars == <<gpsVars, bleVars, upVars, now, op, seen, obsGps, obsBle, poolVars, mainVars>>

(***************************************************************************)
(* GPS_WIFI_Blue_3: state after the module is loaded and BLEService,       *)
(* GPSReader are constructed.                                              *)
(***************************************************************************)
InitCommon ==
    /\ nmea_x = 0 /\ nmea_y = 0 /\ gps_data_valid = FALSE
    /\ last_x = 0 /\ last_y = 0
    /\ user_data = <<>> /\ list_data = <<>> /\ ble_data_received = FALSE
    /\ data_len = 0 /\ up_len = 0
    /\ gps_nmea_x = 0 /\ gps_nmea_y = 0 /\ last_gps_time = 0
    /\ _last_time_str = <<>> /\ _last_time_sec = 0
    /\ now = 0
    /\ op = "init" /\ seen = [n |-> 0]
    /\ fix = <<>> /\ run = FALSE
    /\ accepted = 0 /\ emissions = 0 /\ emit_at = 0 /\ delivered = <<>>
    /\ pool_buffer = [i \in 1..buffer_size |-> NoneItem] /\ pool_index = 0
    /\ writes = 0 /\ odd = 0 /\ pushed = <<>>
    /\ pc = "top" /\ chunk = <<>> /\ current_time = 0
    /\ drained_at = -1
    /\ last_upload_time = 0
    /\ consecutive_failures = 0
    /\ streak = 0 /\ attempt_at = -1 /\ succeeded = FALSE
    /\ payload = [built |-> FALSE]

\* GPS_WIFI_Blue_3 runs on MicroPython and never calls struct.unpack
Init ==
    /\ InitCommon
    /\ struct_exact = FALSE
    /\ max_upload_interval = 50
    /\ current_upload_interval = min_upload_interval

(***************************************************************************)
(* GPSReader._parse_gll                                                    *)
(***************************************************************************)
\* what the sentence is, read off its text alone
Short(parts) == Len(parts) < 7
Numeric(parts) == IsFloat(parts[2]) /\ IsFloat(parts[4])
StatusA(parts) == parts[7] = <<"A">>
IsValidSentence(parts) == ~Short(parts) /\ StatusA(parts) /\ Numeric(parts)
IsVoidSentence(parts) == ~Short(parts) /\ ~StatusA(parts)
Kind(parts) ==
    [short |-> Short(parts),
     statusA |-> IF Short(parts) THEN FALSE ELSE StatusA(parts),
     numeric |-> Numeric(parts),
     latNumeric |-> IsFloat(parts[2])]
\* the coordinates a valid sentence carries: <<longitude, latitude>>, signed
FixOf(parts) ==
    << IF parts[5] = <<"W">> THEN 0 - Float(parts[4]) ELSE Float(parts[4]),
       IF parts[3] = <<"S">> THEN 0 - Float(parts[2]) ELSE Float(parts[2]) >>

\* a fallback taken without asking whether a fix was ever committed
HasHistoryAlways == TRUE

\* line 236: is there a last-known-good fix to fall back to
HasHistory == last_x /= 0

\* a fallback that restores the two coordinates crosswise
gll_void_crossed ==
    /\ IF last_x /= 0
       THEN /\ nmea_x' = last_y
            /\ nmea_y' = last_x
            /\ gps_data_valid' = TRUE
       ELSE UNCHANGED <<nmea_x, nmea_y, gps_data_valid>>
    /\ UNCHANGED <<last_x, last_y, gps_nmea_x, gps_nmea_y, last_gps_time>>

\* lines 234-241: status is not 'A'
gll_void ==
    /\ IF HasHistory
       THEN /\ nmea_x' = last_x
            /\ nmea_y' = last_y
            /\ gps_data_valid' = TRUE
       ELSE UNCHANGED <<nmea_x, nmea_y, gps_data_valid>>
    /\ UNCHANGED <<last_x, last_y, gps_nmea_x, gps_nmea_y, last_gps_time>>

\* a parser that commits the latitude before it has parsed the longitude
gll_active_partial(parts) ==
    IF ~IsFloat(parts[2])
    THEN UNCHANGED gpsVars
    ELSE LET lat0 == Float(parts[2])
             lat == IF Contains(parts[3], "S") THEN 0 - lat0 ELSE lat0
         IN IF ~IsFloat(parts[4])
            THEN /\ gps_nmea_y' = lat
                 /\ nmea_y' = lat
                 /\ UNCHANGED <<nmea_x, gps_data_valid, last_x, last_y,
                                gps_nmea_x, last_gps_time>>
            ELSE LET lon0 == Float(parts[4])
                     lon == IF Contains(parts[5], "W") THEN 0 - lon0 ELSE lon0
                 IN /\ gps_nmea_x' = lon
                    /\ gps_nmea_y' = lat
                    /\ nmea_x' = lon
                    /\ nmea_y' = lat
                    /\ last_x' = lon
                    /\ last_y' = lat
                    /\ gps_data_valid' = TRUE
                    /\ last_gps_time' = now

\* a parser that never applies the hemisphere to the longitude
gll_active_unsigned(parts) ==
    IF ~IsFloat(parts[2]) \/ ~IsFloat(parts[4])
    THEN UNCHANGED gpsVars
    ELSE LET lat0 == Float(parts[2])
             lat == IF Contains(parts[3], "S") THEN 0 - lat0 ELSE lat0
             lon == Float(parts[4])
         IN /\ gps_nmea_x' = lon
            /\ gps_nmea_y' = lat
            /\ nmea_x' = lon
            /\ nmea_y' = lat
            /\ last_x' = lon
            /\ last_y' = lat
            /\ gps_data_valid' = TRUE
            /\ last_gps_time' = now

\* a parser that reports a valid position without recording it as the
\* last-known-good one
gll_active_unrecorded(parts) ==
    IF ~IsFloat(parts[2]) \/ ~IsFloat(parts[4])
    THEN UNCHANGED gpsVars
    ELSE LET lat0 == Float(parts[2])
             lat == IF Contains(parts[3], "S") THEN 0 - lat0 ELSE lat0
             lon0 == Float(parts[4])
             lon == IF Contains(parts[5], "W") THEN 0 - lon0 ELSE lon0
         IN /\ gps_nmea_x' = lon
            /\ gps_nmea_y' = lat
            /\ nmea_x' = lon
            /\ nmea_y' = lat
            /\ gps_data_valid' = TRUE
            /\ last_gps_time' = now
            /\ UNCHANGED <<last_x, last_y>>

\* lines 243-268: status 'A'; float() of either field may raise ValueError
\* (lines 270-272) before anything has been assigned
gll_active(parts) ==
    IF ~IsFloat(parts[2]) \/ ~IsFloat(parts[4])
    THEN UNCHANGED gpsVars
    ELSE LET lat0 == Float(parts[2])
             lat == IF Contains(parts[3], "S") THEN 0 - lat0 ELSE lat0
             lon0 == Float(parts[4])
             lon == IF Contains(parts[5], "W") THEN 0 - lon0 ELSE lon0
         IN /\ gps_nmea_x' = lon
            /\ gps_nmea_y' = lat
            /\ nmea_x' = lon
            /\ nmea_y' = lat
            /\ last_x' = lon
            /\ last_y' = lat
            /\ gps_data_valid' = TRUE
            /\ last_gps_time' = now

_parse_gll(parts) ==
    /\ IF Len(parts) < 7
       THEN UNCHANGED gpsVars
       ELSE IF parts[7] /= <<"A">>
            THEN gll_void
            ELSE gll_active(parts)
    /\ op' = "parse"
    /\ seen' = Kind(parts)
    /\ fix' = IF IsValidSentence(parts) THEN FixOf(parts) ELSE fix
    /\ run' = IF IsValidSentence(parts) THEN TRUE
              ELSE IF IsVoidSentence(parts) THEN run ELSE FALSE
    /\ UNCHANGED <<bleVars, upVars, now, obsBle, poolVars>>

ParseGll == (\E parts \in Sentences : _parse_gll(parts)) /\ UNCHANGED mainVars

ParseGllRing == (\E parts \in RingSentences : _parse_gll(parts)) /\ UNCHANGED mainVars

(***************************************************************************)
(* BLEService._irq_callback, event 3 (a write): lines 152-192.             *)
(***************************************************************************)
Take(s, n) == SubSeq(s, 1, Min(n, Len(s)))
Drop(s, n) == SubSeq(s, Min(n, Len(s)) + 1, Len(s))

\* a recovery that resets the counters and keeps the stored samples
irq_reset_counters_only ==
    /\ data_len' = 0
    /\ up_len' = 0
    /\ emissions' = 0
    /\ UNCHANGED <<list_data, user_data, ble_data_received, accepted, emit_at>>

\* lines 187-192: the outer handler empties the ring
irq_reset ==
    /\ data_len' = 0
    /\ up_len' = 0
    /\ list_data' = <<>>
    /\ emissions' = 0
    /\ UNCHANGED <<user_data, ble_data_received, accepted, emit_at>>

\* a snapshot that copies the ring from slot 0, ignoring the cursor
SnapshotUnrotated(ld, dl) == Take(ld, list_len)

\* lines 173-175: the ring read from the slot after the cursor, oldest first
Snapshot(ld, dl) ==
    Take(Drop(ld, dl % list_len) \o Take(ld, dl % list_len), list_len)

\* a trigger that fires one sample late
UpLenReachedLate(ul) == ul > up_len_limit

\* line 171
UpLenReached(ul) == ul >= up_len_limit

\* lines 164-181 with the decoded text data_str
irq_store(data_str) ==
    IF data_len >= list_len
    THEN IF (data_len % list_len) + 1 \notin DOMAIN list_data
         THEN irq_reset    \* IndexError, caught at line 187
         ELSE LET ld == [list_data EXCEPT ![(data_len % list_len) + 1] = data_str]
                  dl == data_len + 1
                  ul == up_len + 1
              IN /\ list_data' = ld
                 /\ data_len' = dl
                 /\ accepted' = accepted + 1
                 /\ IF UpLenReached(ul)
                    THEN /\ user_data' = Snapshot(ld, dl)
                         /\ ble_data_received' = TRUE
                         /\ up_len' = 0
                         /\ emissions' = emissions + 1
                         /\ emit_at' = accepted + 1
                    ELSE /\ up_len' = ul
                         /\ UNCHANGED <<user_data, ble_data_received, emissions, emit_at>>
    ELSE /\ list_data' = Append(list_data, data_str)
         /\ data_len' = data_len + 1
         /\ accepted' = accepted + 1
         /\ UNCHANGED <<user_data, ble_data_received, up_len, emissions, emit_at>>

\* a write whose bytes decode as ASCII; the sample is the text of the
\* (accepted + 1)-th accepted write
IrqWriteAscii ==
    /\ accepted < MaxAccepted
    /\ irq_store(accepted + 1)
    /\ op' = IF ble_data_received' /\ emit_at' = accepted' THEN "emit" ELSE "write"
    /\ seen' = [sample |-> accepted + 1, printed |-> FALSE, flashed |-> FALSE]
    /\ UNCHANGED <<gpsVars, upVars, now, obsGps, poolVars, mainVars, delivered>>

\* lines 183-185: UnicodeDecodeError, nothing is stored
IrqWriteNonAscii ==
    /\ op' = "nonascii"
    /\ seen' = [sample |-> 0, printed |-> TRUE, flashed |-> FALSE]
    /\ UNCHANGED <<gpsVars, bleVars, upVars, now, obsGps, obsBle, poolVars, mainVars>>

\* lines 187-192: any other exception raised before the sample is stored
\* (gatts_read, or the allocation made by decode)
IrqWriteError ==
    /\ irq_reset
    /\ op' = "error"
    /\ seen' = [sample |-> 0, printed |-> TRUE, flashed |-> FALSE]
    /\ UNCHANGED <<gpsVars, upVars, now, obsGps, poolVars, mainVars, delivered>>

(***************************************************************************)
(* DataUploader: lines 337-427.                                            *)
(***************************************************************************)
DigitChar(d) ==
    CASE d = 0 -> "0" [] d = 1 -> "1" [] d = 2 -> "2" [] d = 3 -> "3"
      [] d = 4 -> "4" [] d = 5 -> "5" [] d = 6 -> "6" [] d = 7 -> "7"
      [] d = 8 -> "8" [] d = 9 -> "9"

RECURSIVE DecStr(_)
\* "%d" % n for n >= 0
DecStr(n) == IF n < 10 THEN <<DigitChar(n)>> ELSE Append(DecStr(n \div 10), DigitChar(n % 10))

RECURSIVE PadStr(_, _)
\* "{:0wd}".format(n) for n >= 0
PadStr(n, w) == IF w <= 1 THEN DecStr(n) ELSE
                IF n < Pow10(w - 1) THEN <<"0">> \o PadStr(n, w - 1) ELSE DecStr(n)

Abs(v) == IF v < 0 THEN 0 - v ELSE v

\* "%.6f" % v, v in units of 1e-4
Fmt6(v) ==
    (IF v < 0 THEN <<"-">> ELSE <<>>) \o DecStr(Abs(v) \div 10000) \o <<".">>
        \o PadStr(Abs(v) % 10000, 4) \o <<"0", "0">>

\* "{:04d}-{:02d}-{:02d} {:02d}:{:02d}:{:02d}".format(*time.localtime()[:6])
\* at clock reading t; the port counts seconds from 2000-01-01 00:00:00 and
\* the clock readings explored stay within January 2000
TimeStr(t) ==
    PadStr(2000, 4) \o <<"-">> \o PadStr(1, 2) \o <<"-">> \o PadStr(1 + t \div 86400, 2)
        \o <<" ">> \o PadStr((t % 86400) \div 3600, 2) \o <<":">>
        \o PadStr((t % 3600) \div 60, 2) \o <<":">> \o PadStr(t % 60, 2)

\* lines 343-352: the string returned at clock reading `now`
TimeCached == now - _last_time_sec < 1
_get_current_time_str == IF TimeCached THEN _last_time_str ELSE TimeStr(now)

\* a record that carries the whole snapshot
PayloadDataWhole(ud) == ud

\* line 371
PayloadData(ud) ==
    IF Len(ud) > payload_limit THEN SubSeq(ud, Len(ud) - payload_limit + 1, Len(ud)) ELSE ud

\* lines 355-387: None when a flag is down (built = FALSE)
generate_payload ==
    IF ~gps_data_valid \/ ~ble_data_received
    THEN [built |-> FALSE]
    ELSE [built |-> TRUE,
          device_id |-> <<"3">>,
          position_x |-> Fmt6(nmea_x),
          position_y |-> Fmt6(nmea_y),
          time_stamp |-> _get_current_time_str,
          user_data |-> PayloadData(user_data)]

\* lines 390-427; ok is what http_post returns (False covers every failure
\* of the request, which http_post catches)
upload_data(ok) ==
    IF ~gps_data_valid \/ ~ble_data_received
    THEN /\ seen' = [payload |-> [built |-> FALSE], sent |-> FALSE, ret |-> FALSE]
         /\ UNCHANGED <<gps_data_valid, ble_data_received, upVars>>
    ELSE /\ seen' = [payload |-> generate_payload, sent |-> TRUE, ret |-> ok]
         /\ IF TimeCached
            THEN UNCHANGED upVars
            ELSE /\ _last_time_str' = TimeStr(now)
                 /\ _last_time_sec' = now
         /\ IF ok
            THEN /\ gps_data_valid' = FALSE
                 /\ ble_data_received' = FALSE
            ELSE UNCHANGED <<gps_data_valid, ble_data_received>>

UploadData ==
    /\ \E ok \in BOOLEAN : upload_data(ok)
    /\ op' = "upload"
    /\ run' = IF seen'.ret THEN FALSE ELSE run
    /\ delivered' = IF seen'.ret THEN seen'.payload.user_data ELSE delivered
    /\ UNCHANGED <<nmea_x, nmea_y, last_x, last_y, gps_nmea_x, gps_nmea_y, last_gps_time>>
    /\ UNCHANGED <<user_data, list_data, data_len, up_len, now, fix,
                   accepted, emissions, emit_at, poolVars, mainVars>>

\* the device clock advances by one second, up to limit
clock_advances(limit) ==
    /\ now < limit
    /\ now' = now + 1
    /\ op' = "tick"
    /\ seen' = [n |-> now + 1]
    /\ UNCHANGED <<gpsVars, bleVars, upVars, obsGps, obsBle, poolVars, mainVars>>

Tick == clock_advances(MaxTime)

\* the write events that bring the ring to its first two emissions,
\* none of them failing
IrqFill ==
    /\ accepted < list_len + 2 * up_len_limit
    /\ IrqWriteAscii

(***************************************************************************)
(* GPS_WIFI_Blue_3, parser-centred: every sentence, the ring up to its     *)
(* second emission.                                                        *)
(***************************************************************************)
Next ==
    \/ ParseGll
    \/ IrqFill
    \/ UploadData
    \/ Tick

Spec == Init /\ [][Next]_vars

(***************************************************************************)
(* GPS_WIFI_Blue_3, ring-centred: every kind of write event, two           *)
(* sentences.                                                              *)
(***************************************************************************)
NextRing ==
    \/ ParseGllRing
    \/ IrqWriteAscii
    \/ IrqWriteNonAscii
    \/ IrqWriteError
    \/ UploadData
    \/ Tick

SpecRing == Init /\ [][NextRing]_vars

(***************************************************************************)
(* GPS_WIFI_Blue_3: main(), lines 431-492.  One iteration of the loop is   *)
(* taken in steps, so that write events and the clock interleave with it   *)
(* where the interpreter lets them: while http_post waits for the server   *)
(* (a write event during the rgb_flash that follows it leaves the same     *)
(* state as one during http_post) and during the closing sleep.            *)
(***************************************************************************)
Tenths(t) == 10 * t

\* what one uart.read can hold: up to MaxChunk GLL sentences; the empty
\* chunk is uart.any() = 0 or a read with no GLL sentence in it
Chunks == UNION { [1..n -> RingSentences] : n \in 0..MaxChunk }

\* GPSReader.read_gps_data up to the for loop, lines 210-216; window is
\* the literal of line 212 (1.0) or of GPS_WIFI_Blue_4_.py line 170 (2.0)
read_gps_data_from(chunks, window) ==
    /\ pc = "top"
    /\ IF now - last_gps_time >= window
       THEN \E c \in chunks : chunk' = c
       ELSE chunk' = <<>>
    /\ pc' = "gps"
    /\ op' = "read"
    /\ seen' = [n |-> Len(chunk'), window |-> window, last |-> drained_at]
    /\ drained_at' = IF chunk' /= <<>> THEN now ELSE drained_at
    /\ UNCHANGED <<gpsVars, bleVars, upVars, now, obsGps, obsBle, poolVars, loopVars>>

\* read_gps_data with the receiver of the main-loop specifications
read_gps_data(window) == read_gps_data_from(Chunks, window)

ReadGpsData == read_gps_data(1)

\* one round of the for loop, lines 217-220: the loop ends at the first
\* sentence for which _parse_gll returns True (line 268)
ReadSentence ==
    /\ pc = "gps"
    /\ chunk /= <<>>
    /\ _parse_gll(Head(chunk))
    /\ chunk' = IF IsValidSentence(Head(chunk)) THEN <<>> ELSE Tail(chunk)
    /\ UNCHANGED <<pc, drained_at, loopVars>>

\* lines 461-462: the interval has elapsed and WiFi is connected
upload_due(connected) ==
    /\ Tenths(now - last_upload_time) >= current_upload_interval
    /\ connected

\* upload_data reaches http_post: lines 395-401
upload_data_sends_never == FALSE

upload_data_sends_always == TRUE

upload_data_sends ==
    /\ gps_data_valid /\ ble_data_received
    /\ generate_payload.built

\* line 470
failures_reached_early(n) == n >= max_consecutive_failures - 1

failures_reached(n) == n >= max_consecutive_failures

\* lines 472-475
doubled_interval_uncapped(i) == i * 2

doubled_interval(i) == Min(i * 2, max_upload_interval)

\* lines 469-477: upload_data returned False
upload_failed ==
    /\ streak < MaxStreak
    /\ streak' = streak + 1
    /\ IF failures_reached(consecutive_failures + 1)
       THEN /\ current_upload_interval' = doubled_interval(current_upload_interval)
            /\ consecutive_failures' = 0
       ELSE /\ consecutive_failures' = consecutive_failures + 1
            /\ UNCHANGED current_upload_interval
    /\ UNCHANGED <<last_upload_time, max_upload_interval, succeeded>>

\* line 461
interval_elapsed == Tenths(now - last_upload_time) >= current_upload_interval

\* WiFiManager.connect, lines 283-299: it returns True, returns False after
\* ten one-second polls, or sta_if.active / sta_if.connect raise OSError
ConnectOutcomes == {"connected", "refused", "raised"}

\* an exception that escapes the body of the loop with no handler ends main
main_except_missing == "halted"

\* lines 490-492: except Exception prints, sleeps one second, and the while
\* loop takes its next iteration
main_except == "sleep"

\* lines 479-486: the interval has elapsed and WiFi is not connected
wifi_connect(outcome) ==
    /\ op' = "reconnect"
    /\ seen' = [outcome |-> outcome]
    /\ pc' = IF outcome = "raised" THEN main_except ELSE "sleep"

\* lines 460-463 and upload_data up to the call of http_post (lines
\* 395-408); connected is wifi.sta_if.isconnected()
main_check(connected) ==
    /\ pc = "gps"
    /\ chunk = <<>>
    /\ current_time' = now
    /\ IF ~upload_due(connected)
       THEN /\ IF interval_elapsed
               THEN \E outcome \in ConnectOutcomes : wifi_connect(outcome)
               ELSE /\ pc' = "sleep"
                    /\ op' = "check"
                    /\ seen' = [due |-> FALSE, sent |-> FALSE,
                                payload |-> [built |-> FALSE]]
            /\ UNCHANGED <<upVars, last_upload_time, current_upload_interval,
                           consecutive_failures, max_upload_interval, streak,
                           attempt_at, succeeded, payload>>
       ELSE IF ~upload_data_sends
            THEN /\ pc' = "sleep"
                 /\ op' = "check"
                 /\ seen' = [due |-> TRUE, sent |-> FALSE, payload |-> generate_payload]
                 /\ upload_failed
                 /\ UNCHANGED <<upVars, attempt_at, payload>>
            ELSE /\ pc' = "post"
                 /\ op' = "check"
                 /\ seen' = [due |-> TRUE, sent |-> TRUE, payload |-> generate_payload]
                 /\ IF TimeCached
                    THEN UNCHANGED upVars
                    ELSE /\ _last_time_str' = TimeStr(now)
                         /\ _last_time_sec' = now
                 /\ attempt_at' = now
                 /\ payload' = generate_payload
                 /\ UNCHANGED <<last_upload_time, current_upload_interval,
                                consecutive_failures, max_upload_interval, streak,
                                succeeded>>
    /\ UNCHANGED <<gpsVars, bleVars, now, obsGps, obsBle, poolVars, chunk, drained_at>>

MainCheck == \E connected \in BOOLEAN : main_check(connected)

\* the time main records after a successful upload, line 468
recorded_time_now == now

recorded_time == current_time

\* line 416: the flags are cleared when http_post returned True
post_clears_never(ok) == FALSE

post_clears_always(ok) == TRUE

post_clears(ok) == ok

\* the record http_post is given, line 410: the local built at line 398
http_post_record_rebuilt == generate_payload

http_post_record == payload

\* http_post returns: lines 409-427 of upload_data, then lines 463-477 of
\* main; ok = False is every failure of the request, an exception
\* included (lines 425-427)
http_post_returns(ok) ==
    /\ pc = "post"
    /\ pc' = "sleep"
    /\ op' = IF ok THEN "success" ELSE "failed"
    /\ seen' = [ret |-> ok, record |-> http_post_record]
    /\ payload' = [built |-> FALSE]
    /\ IF post_clears(ok)
       THEN /\ gps_data_valid' = FALSE
            /\ ble_data_received' = FALSE
       ELSE UNCHANGED <<gps_data_valid, ble_data_received>>
    /\ IF ok
       THEN /\ current_upload_interval' = min_upload_interval
            /\ consecutive_failures' = 0
            /\ last_upload_time' = recorded_time
            /\ streak' = 0
            /\ succeeded' = TRUE
            /\ run' = FALSE
            /\ UNCHANGED max_upload_interval
       ELSE /\ upload_failed
            /\ UNCHANGED run
    /\ UNCHANGED <<nmea_x, nmea_y, last_x, last_y, gps_nmea_x, gps_nmea_y, last_gps_time>>
    /\ delivered' = IF ok THEN http_post_record.user_data ELSE delivered
    /\ UNCHANGED <<user_data, list_data, data_len, up_len, upVars, now, fix,
                   accepted, emissions, emit_at,
                   poolVars, chunk, drained_at, current_time, attempt_at>>

HttpPostReturns == \E ok \in BOOLEAN : http_post_returns(ok)

\* time.sleep(0.1) is over, line 488
main_sleep ==
    /\ pc = "sleep"
    /\ pc' = "top"
    /\ op' = "sleep"
    /\ seen' = [n |-> 0]
    /\ succeeded' = FALSE
    /\ UNCHANGED <<gpsVars, bleVars, upVars, now, obsGps, obsBle, poolVars, chunk, drained_at>>
    /\ UNCHANGED <<current_time, last_upload_time, current_upload_interval,
                   consecutive_failures, max_upload_interval, streak, attempt_at,
                   payload>>

\* the clock while main() runs
TickMain == clock_advances(MaxClock)

NextMain ==
    \/ ReadGpsData
    \/ ReadSentence
    \/ MainCheck
    \/ HttpPostReturns
    \/ main_sleep
    \/ IrqFill
    \/ TickMain

SpecMain == Init /\ [][NextMain]_vars

(***************************************************************************)
(* GPS_WIFI_Blue_3 with a healthy network: WiFi is connected at every      *)
(* check and http_post returns True.  Ticks on which a flag is down still  *)
(* count as failures (lines 469-477), so the interval is doubled as in     *)
(* SpecMain.  The while loop never ends and never blocks for good (every   *)
(* call in it returns, the sleeps are finite), and the clock runs: hence   *)
(* weak fairness of the steps of the loop and of the clock.  Write events  *)
(* come from the peer and get no fairness; the peer stops after the first  *)
(* emission, and the receiver sends at most one sentence per drain.        *)
(***************************************************************************)
MainCheckUp == main_check(TRUE)

HttpPostOk == http_post_returns(TRUE)

\* the receiver sends at most one sentence per drain
ChunksOne == UNION { [1..n -> RingSentences] : n \in 0..1 }

ReadGpsDataOne == read_gps_data_from(ChunksOne, 1)

\* the write events up to the first emission
IrqFirst ==
    /\ accepted < list_len + up_len_limit
    /\ IrqWriteAscii

MainStepUp ==
    \/ ReadGpsDataOne
    \/ ReadSentence
    \/ MainCheckUp
    \/ HttpPostOk
    \/ main_sleep

NextLive ==
    \/ MainStepUp
    \/ IrqFirst
    \/ TickMain

SpecLive ==
    /\ Init
    /\ [][NextLive]_vars
    /\ WF_vars(MainStepUp)
    /\ WF_vars(TickMain)

(***************************************************************************)
(* GPS_WIFI_Blue_3 with a receiver that moves and no BLE peer: the chunks  *)
(* hold up to MaxChunk sentences out of two different fixes and a void     *)
(* sentence, and no write event arrives, so upload_data never reaches      *)
(* http_post.                                                              *)
(***************************************************************************)
\* "$GPGLL,3723.2475,S,12158.3416,E,161229,A,A*41"
SecondSentence ==
    GLL(<<"3", "7", "2", "3", ".", "2", "4", "7", "5">>, <<"S">>,
        <<"1", "2", "1", "5", "8", ".", "3", "4", "1", "6">>, <<"E">>, <<"A">>, 8)

FixSentences == RingSentences \cup {SecondSentence}

FixChunks == UNION { [1..n -> FixSentences] : n \in 0..MaxChunk }

ReadGpsDataFixes == read_gps_data_from(FixChunks, 1)

NextGps ==
    \/ ReadGpsDataFixes
    \/ ReadSentence
    \/ MainCheck
    \/ main_sleep
    \/ TickMain

SpecGps == Init /\ [][NextGps]_vars

(***************************************************************************)
(* GPS_WIFI_Blue_4_: data_pool (lines 72-88), the write branch of          *)
(* BLEService._irq_callback (lines 139-150), DataUploader (lines 295-372). *)
(* Its globals nmea_x, nmea_y, gps_data_valid, last_x, last_y and its      *)
(* GPSReader._parse_gll (lines 182-233) are, text for text, those of       *)
(* GPS_WIFI_Blue_3, and are modelled by the same variables and action.     *)
(***************************************************************************)
\* the bytes of the k-th write event: little-endian words k, k + 256
Stream(k) == <<k, 0, 0, 0, k, 1, 0, 0>>
PayloadLens == {0, 3, 4, 5, 8}

\* the 32-bit pattern of four little-endian bytes; it stands for the float
LE32(b) == b[1] + 256 * b[2] + 65536 * b[3] + 16777216 * b[4]

\* struct.unpack('<' + 'f' * count, data) raises
UnpackRaises(count, data) ==
    \/ Len(data) < 4 * count
    \/ struct_exact /\ Len(data) /= 4 * count

\* struct.unpack('<' + 'f' * count, data)
Unpack(count, data) == [i \in 1..count |-> LE32(SubSeq(data, 4 * i - 3, 4 * i))]

\* the last n elements of s, all of s if it is shorter
LastN(s, n) == SubSeq(s, Len(s) - Min(n, Len(s)) + 1, Len(s))

\* data_pool.append, lines 78-81
pool_append(item) ==
    /\ pool_buffer' = [pool_buffer EXCEPT ![pool_index + 1] = item]
    /\ pool_index' = (pool_index + 1) % buffer_size

\* data_pool.get_new, lines 83-88: some = FALSE stands for None
get_new(n) ==
    IF pool_index >= n
    THEN [some |-> TRUE, items |-> SubSeq(pool_buffer, pool_index - n + 1, pool_index)]
    ELSE [some |-> FALSE, items |-> <<>>]

\* lines 139-150
irq_write_b4(received_data) ==
    LET float_count == Len(received_data) \div 4
    IN IF UnpackRaises(float_count, received_data)
       THEN /\ UNCHANGED <<pool_buffer, pool_index, pushed>>
            /\ seen' = [len |-> Len(received_data), stored |-> FALSE,
                         printed |-> TRUE, flashed |-> FALSE]
       ELSE /\ pool_append(Unpack(float_count, received_data))
            /\ pushed' = LastN(Append(pushed, Unpack(float_count, received_data)), get_new_n)
            /\ seen' = [len |-> Len(received_data), stored |-> TRUE,
                         printed |-> TRUE, flashed |-> FALSE]

IrqWriteB4 ==
    /\ writes < MaxWrites
    /\ \E n \in PayloadLens :
          /\ n /= 4 => odd < MaxOdd
          /\ odd' = IF n /= 4 THEN odd + 1 ELSE odd
          /\ irq_write_b4(Take(Stream(writes + 1), n))
    /\ writes' = writes + 1
    /\ op' = "write_b4"
    /\ UNCHANGED <<gpsVars, bleVars, upVars, now, obsGps, obsBle, struct_exact, mainVars>>

\* lines 301-310: the cache is reused for two seconds
TimeCachedB4 == now - _last_time_sec < 2
_get_current_time_str_b4 == IF TimeCachedB4 THEN _last_time_str ELSE TimeStr(now)

\* lines 313-345: the availability check, then the read that fills user_data
generate_payload_b4 ==
    IF ~get_new(get_new_n).some
    THEN [built |-> FALSE]
    ELSE [built |-> TRUE,
          device_id |-> <<"3">>,
          position_x |-> Fmt6(nmea_x),
          position_y |-> Fmt6(nmea_y),
          time_stamp |-> _get_current_time_str_b4,
          user_data |-> get_new(get_new_n)]

\* lines 348-372.  `wifi` is a local of main() (line 384), so line 357
\* raises NameError, which line 370 catches: with a payload in hand the
\* method returns False before http_post is reached.
upload_data_b4 ==
    LET record == generate_payload_b4
    IN /\ seen' = [check |-> get_new(get_new_n), payload |-> record,
                   sent |-> FALSE, ret |-> FALSE]
       /\ IF record.built /\ ~TimeCachedB4
          THEN /\ _last_time_str' = TimeStr(now)
               /\ _last_time_sec' = now
          ELSE UNCHANGED upVars

UploadDataB4 ==
    /\ upload_data_b4
    /\ op' = "upload_b4"
    /\ UNCHANGED <<gpsVars, bleVars, now, obsGps, obsBle, poolVars, mainVars>>

InitB4 ==
    /\ InitCommon
    /\ struct_exact \in BOOLEAN
    /\ max_upload_interval = 30
    /\ current_upload_interval = min_upload_interval

NextB4 ==
    \/ ParseGllRing
    \/ IrqWriteB4
    \/ UploadDataB4
    \/ Tick

SpecB4 == InitB4 /\ [][NextB4]_vars

(***************************************************************************)
(* GPS_WIFI_Blue_4_: generate_payload reads the pool twice, at line 318    *)
(* for the availability check and at line 330 for user_data.  The write    *)
(* handler runs in interrupt context and may append between the two, so    *)
(* the call is taken in two steps here.                                    *)
(***************************************************************************)
\* lines 316-319: the availability check
generate_payload_check_b4 ==
    /\ pc = "top"
    /\ IF get_new(get_new_n).some
       THEN /\ pc' = "read"
            /\ payload' = [built |-> FALSE, check |-> get_new(get_new_n)]
            /\ UNCHANGED <<op, seen>>
       ELSE /\ op' = "upload_b4"
            /\ seen' = [check |-> get_new(get_new_n), payload |-> [built |-> FALSE],
                        sent |-> FALSE, ret |-> FALSE]
            /\ UNCHANGED <<pc, payload>>
    /\ UNCHANGED <<gpsVars, bleVars, upVars, now, obsGps, obsBle, poolVars, chunk,
                   drained_at, current_time, last_upload_time, current_upload_interval,
                   consecutive_failures, max_upload_interval, streak, attempt_at,
                   succeeded>>

\* lines 321-345, then upload_data lines 352-354: a record whose user_data
\* is None is falsy at `not payload.get('user_data')` and the upload is
\* given up; otherwise line 357 raises NameError as in upload_data_b4
generate_payload_read_b4 ==
    /\ pc = "read"
    /\ pc' = "top"
    /\ op' = "upload_b4"
    /\ seen' = [check |-> payload.check,
                payload |-> [built |-> TRUE,
                             device_id |-> <<"3">>,
                             position_x |-> Fmt6(nmea_x),
                             position_y |-> Fmt6(nmea_y),
                             time_stamp |-> _get_current_time_str_b4,
                             user_data |-> get_new(get_new_n)],
                sent |-> FALSE, ret |-> FALSE]
    /\ payload' = [built |-> FALSE]
    /\ IF ~TimeCachedB4
       THEN /\ _last_time_str' = TimeStr(now)
            /\ _last_time_sec' = now
       ELSE UNCHANGED upVars
    /\ UNCHANGED <<gpsVars, bleVars, now, obsGps, obsBle, poolVars, chunk, drained_at,
                   current_time, last_upload_time, current_upload_interval,
                   consecutive_failures, max_upload_interval, streak, attempt_at,
                   succeeded>>

NextRaceB4 ==
    \/ ParseGllRing
    \/ IrqWriteB4
    \/ generate_payload_check_b4
    \/ generate_payload_read_b4
    \/ Tick

SpecRaceB4 == InitB4 /\ [][NextRaceB4]_vars

(***************************************************************************)
(* GPS_WIFI_Blue_4_: main(), lines 376-437, text for text the loop of      *)
(* GPS_WIFI_Blue_3 but for max_upload_interval = 3.0 (line 392) and the    *)
(* 2.0 s window of read_gps_data (line 170).  upload_data never returns    *)
(* True, so every iteration that is due ends in lines 414-422.             *)
(***************************************************************************)
ReadGpsDataB4 == read_gps_data(2)

\* lines 405-422; connected is wifi.sta_if.isconnected()
main_check_b4(connected) ==
    /\ pc = "gps"
    /\ chunk = <<>>
    /\ current_time' = now
    /\ pc' = "sleep"
    /\ IF ~upload_due(connected)
       THEN /\ op' = "check"
            /\ seen' = [due |-> FALSE, sent |-> FALSE, payload |-> [built |-> FALSE]]
            /\ UNCHANGED <<upVars, last_upload_time, current_upload_interval,
                           consecutive_failures, max_upload_interval, streak,
                           succeeded>>
       ELSE /\ op' = "upload_b4"
            /\ upload_data_b4
            /\ upload_failed
    /\ UNCHANGED <<gpsVars, bleVars, now, obsGps, obsBle, poolVars, chunk, drained_at, attempt_at,
                   payload>>

MainCheckB4 == \E connected \in BOOLEAN : main_check_b4(connected)

\* 4-byte write events, up to one past the first full read of the pool
IrqFillB4 ==
    /\ writes < get_new_n + 1
    /\ odd' = odd
    /\ IrqWriteB4

NextMainB4 ==
    \/ ReadGpsDataB4
    \/ ReadSentence
    \/ MainCheckB4
    \/ main_sleep
    \/ IrqFillB4
    \/ TickMain

SpecMainB4 == InitB4 /\ [][NextMainB4]_vars

(***************************************************************************)
(* GPS_WIFI_Blue_2: GPSReader (lines 184-248) and main() (lines 392-415)   *)
(* with no BLE peer.  read_gps_data has no time gate, the loop has one     *)
(* fixed interval and sleeps a second per iteration, and last_upload_time  *)
(* is recorded after every call of upload_data.                            *)
(***************************************************************************)
\* line 405
upload_interval_b2 == 2

InitB2 ==
    /\ InitCommon
    /\ struct_exact = FALSE
    /\ max_upload_interval = Tenths(upload_interval_b2)
    /\ current_upload_interval = Tenths(upload_interval_b2)

\* "$GPGLL,3723.2475,N,12158.3416,W,161229": six fields, cut before the status
SixFields ==
    GLL(<<"3", "7", "2", "3", ".", "2", "4", "7", "5">>, <<"N">>,
        <<"1", "2", "1", "5", "8", ".", "3", "4", "1", "6">>, <<"W">>, <<"A">>, 6)

\* "$GPGLL,3723.2475,N,12158.3416,W": five fields
FiveFields ==
    GLL(<<"3", "7", "2", "3", ".", "2", "4", "7", "5">>, <<"N">>,
        <<"1", "2", "1", "5", "8", ".", "3", "4", "1", "6">>, <<"W">>, <<"A">>, 5)

SentencesB2 == RingSentences \cup {SixFields, FiveFields}

ChunksB2 == UNION { [1..n -> SentencesB2] : n \in 0..MaxChunk }

\* line 196-197: no gate but uart.any()
ReadGpsDataB2 == read_gps_data_from(ChunksB2, 0)

\* lines 211-213: len(parts) >= 6 lets a sentence of exactly six fields
\* through, and parts[6] then raises IndexError, which _parse_gll does not
\* catch
parse_raises_b2(parts) == Len(parts) = 6

\* lines 214-232: status 'A'; float() may raise ValueError (caught at line
\* 233) before anything has been assigned
gll_active_b2(parts) ==
    IF ~IsFloat(parts[2]) \/ ~IsFloat(parts[4])
    THEN UNCHANGED gpsVars
    ELSE LET lat0 == Float(parts[2])
             lon0 == Float(parts[4])
             lat == IF Contains(parts[3], "S") THEN 0 - lat0 ELSE lat0
             lon == IF Contains(parts[5], "W") THEN 0 - lon0 ELSE lon0
         IN /\ gps_nmea_x' = lon
            /\ gps_nmea_y' = lat
            /\ nmea_x' = lon
            /\ nmea_y' = lat
            /\ last_x' = lon
            /\ last_y' = lat
            /\ gps_data_valid' = TRUE
            /\ UNCHANGED last_gps_time

\* lines 209-248
_parse_gll_b2(parts) ==
    /\ IF Len(parts) < 6 \/ parse_raises_b2(parts)
       THEN UNCHANGED gpsVars
       ELSE IF parts[7] = <<"A">>
            THEN gll_active_b2(parts)
            ELSE gll_void
    /\ op' = "parse"
    /\ seen' = [short |-> Short(parts), raised |-> parse_raises_b2(parts)]
    /\ fix' = IF IsValidSentence(parts) THEN FixOf(parts) ELSE fix
    /\ run' = IF IsValidSentence(parts) THEN TRUE
              ELSE IF IsVoidSentence(parts) THEN run ELSE FALSE
    /\ UNCHANGED <<bleVars, upVars, now, obsBle, poolVars>>

\* one round of the for loop, lines 201-204: the loop ends at the first
\* sentence for which _parse_gll returns True, and at the first one for
\* which it raises (the except of lines 205-206 is outside the loop)
ReadSentenceB2 ==
    /\ pc = "gps"
    /\ chunk /= <<>>
    /\ _parse_gll_b2(Head(chunk))
    /\ chunk' = IF IsValidSentence(Head(chunk)) \/ parse_raises_b2(Head(chunk))
                THEN <<>>
                ELSE Tail(chunk)
    /\ UNCHANGED <<pc, drained_at, loopVars>>

\* generate_payload, lines 312-351: the record refers to the list user_data
\* is bound to when it is built (line 338)
generate_payload_b2 ==
    [built |-> TRUE,
     device_id |-> <<"3">>,
     position_x |-> nmea_x,
     position_y |-> nmea_y,
     time_stamp |-> TimeStr(now),
     user_data |-> user_data]

\* main lines 408-414 and upload_data up to the call of http_post (lines
\* 358-378); connected is wifi.sta_if.isconnected().  main records
\* last_upload_time whatever upload_data returned (line 412).
main_check_b2(connected) ==
    /\ pc = "gps"
    /\ chunk = <<>>
    /\ current_time' = now
    /\ op' = "check"
    /\ IF ~upload_due(connected)
       THEN /\ pc' = "sleep"
            /\ seen' = [due |-> FALSE, sent |-> FALSE]
            /\ UNCHANGED <<last_upload_time, attempt_at, payload>>
       ELSE IF ~gps_data_valid \/ ~ble_data_received
            THEN /\ pc' = "sleep"
                 /\ seen' = [due |-> TRUE, sent |-> FALSE]
                 /\ last_upload_time' = now
                 /\ UNCHANGED <<attempt_at, payload>>
            ELSE /\ pc' = "post"
                 /\ seen' = [due |-> TRUE, sent |-> TRUE]
                 /\ attempt_at' = now
                 /\ payload' = generate_payload_b2
                 /\ UNCHANGED last_upload_time
    /\ UNCHANGED <<gpsVars, bleVars, upVars, now, obsGps, obsBle, poolVars, chunk,
                   drained_at, current_upload_interval, consecutive_failures,
                   max_upload_interval, streak, succeeded>>

MainCheckB2 == \E connected \in BOOLEAN : main_check_b2(connected)

\* flags that are never cleared
post_clears_b2_never(success) == FALSE

\* line 380: the flags are cleared when http_post returned True
post_clears_b2(success) == success

\* http_post returns success (it catches every exception, lines 291-293):
\* lines 380-385 of upload_data, then line 412 of main
http_post_returns_b2(success) ==
    /\ pc = "post"
    /\ pc' = "sleep"
    /\ op' = IF success THEN "success" ELSE "failed"
    /\ seen' = [ret |-> success, record |-> payload]
    /\ payload' = [built |-> FALSE]
    /\ delivered' = IF success THEN payload.user_data ELSE delivered
    /\ IF post_clears_b2(success)
       THEN /\ gps_data_valid' = FALSE
            /\ ble_data_received' = FALSE
       ELSE UNCHANGED <<gps_data_valid, ble_data_received>>
    /\ last_upload_time' = current_time
    /\ succeeded' = success
    /\ UNCHANGED <<nmea_x, nmea_y, last_x, last_y, gps_nmea_x, gps_nmea_y, last_gps_time>>
    /\ UNCHANGED <<user_data, list_data, data_len, up_len, upVars, now, obsGps,
                   accepted, emissions, emit_at, poolVars, chunk, drained_at,
                   current_time, current_upload_interval, consecutive_failures,
                   max_upload_interval, streak, attempt_at>>

HttpPostReturnsB2 == \E success \in BOOLEAN : http_post_returns_b2(success)

NextB2 ==
    \/ ReadGpsDataB2
    \/ ReadSentenceB2
    \/ MainCheckB2
    \/ main_sleep
    \/ TickMain

SpecB2 == InitB2 /\ [][NextB2]_vars

(***************************************************************************)
(* GPS_WIFI_Blue_2 with its BLE peer: the write branch of                  *)
(* BLEService._irq_callback (lines 150-179) interleaved with main().  The  *)
(* handler stores samples until list_data holds list_len of them and      *)
(* hands the list over on the write event after that.                      *)
(***************************************************************************)
\* line 70 (512 in the source), scaled
list_len_b2 == 3

\* line 160
trigger_b2 == data_len = list_len_b2

\* lines 161-165: the list is handed over and emptied; the bytes of the
\* write event that triggered it are not looked at
irq_emit_b2 ==
    /\ user_data' = list_data
    /\ ble_data_received' = TRUE
    /\ list_data' = <<>>
    /\ data_len' = 0
    /\ emissions' = emissions + 1
    /\ UNCHANGED up_len

\* a write whose bytes decode as ASCII, lines 155-171; the sample is the
\* text of the (accepted + 1)-th such write delivered to the handler
IrqWriteB2 ==
    /\ accepted < MaxAccepted
    /\ accepted' = accepted + 1
    /\ IF trigger_b2
       THEN /\ irq_emit_b2
            /\ emit_at' = accepted + 1
            /\ op' = "emit"
            /\ seen' = [sample |-> accepted + 1, stored |-> FALSE,
                        printed |-> TRUE, flashed |-> FALSE]
       ELSE /\ list_data' = Append(list_data, accepted + 1)
            /\ data_len' = data_len + 1
            /\ op' = "write"
            /\ seen' = [sample |-> accepted + 1, stored |-> TRUE,
                        printed |-> FALSE, flashed |-> FALSE]
            /\ UNCHANGED <<user_data, ble_data_received, up_len, emissions, emit_at>>
    /\ UNCHANGED <<gpsVars, upVars, now, obsGps, poolVars, mainVars, delivered>>

\* a write whose bytes do not decode, lines 160-174: it triggers the
\* handover all the same, and otherwise raises UnicodeDecodeError
IrqWriteNonAsciiB2 ==
    /\ IF trigger_b2
       THEN /\ irq_emit_b2
            /\ emit_at' = accepted
            /\ op' = "emit_nonascii"
       ELSE /\ op' = "nonascii"
            /\ UNCHANGED <<bleVars, emissions, emit_at>>
    /\ seen' = [sample |-> 0, stored |-> FALSE, printed |-> TRUE, flashed |-> FALSE]
    /\ UNCHANGED <<gpsVars, upVars, now, obsGps, poolVars, mainVars, accepted, delivered>>

ReadGpsDataRingB2 == read_gps_data_from(Chunks, 0)

NextMainB2 ==
    \/ ReadGpsDataRingB2
    \/ ReadSentenceB2
    \/ MainCheckB2
    \/ HttpPostReturnsB2
    \/ main_sleep
    \/ IrqWriteB2
    \/ IrqWriteNonAsciiB2
    \/ TickMain

SpecMainB2 == InitB2 /\ [][NextMainB2]_vars

(***************************************************************************)
(* GPS_4G_Blue: the globals of lines 29-34 (user_data is the text of the   *)
(* last write event), GPSReader (lines 277-321), the write branch of       *)
(* BLEService._irq_callback (lines 250-266), DataUploader (lines 324-373)  *)
(* and main() (lines 376-400).  The loop has one fixed interval, kept in   *)
(* current_upload_interval, and sleeps a second per iteration.             *)
(***************************************************************************)
Init4G ==
    /\ InitCommon
    /\ struct_exact = FALSE
    /\ max_upload_interval = Tenths(upload_interval)
    /\ current_upload_interval = Tenths(upload_interval)

\* lines 254-260: the text of a write event replaces user_data
IrqWrite4G ==
    /\ accepted < MaxAccepted
    /\ accepted' = accepted + 1
    /\ user_data' = <<accepted + 1>>
    /\ ble_data_received' = TRUE
    /\ op' = "write"
    /\ seen' = [sample |-> accepted + 1, printed |-> TRUE, flashed |-> TRUE]
    /\ UNCHANGED <<list_data, data_len, up_len, emissions, emit_at, delivered>>
    /\ UNCHANGED <<gpsVars, upVars, now, obsGps, poolVars, mainVars>>

\* lines 298-321
_parse_gll_4g(parts) ==
    /\ IF Len(parts) >= 7 /\ parts[7] = <<"A">> /\ IsFloat(parts[2]) /\ IsFloat(parts[4])
       THEN LET lat0 == Float(parts[2])
                lon0 == Float(parts[4])
            IN /\ nmea_y' = IF Contains(parts[3], "S") THEN 0 - lat0 ELSE lat0
               /\ nmea_x' = IF Contains(parts[5], "W") THEN 0 - lon0 ELSE lon0
               /\ gps_data_valid' = TRUE
       ELSE UNCHANGED <<nmea_x, nmea_y, gps_data_valid>>
    /\ op' = "parse"
    /\ seen' = Kind(parts)
    /\ fix' = IF IsValidSentence(parts) THEN FixOf(parts) ELSE fix
    /\ UNCHANGED <<last_x, last_y, gps_nmea_x, gps_nmea_y, last_gps_time, run>>
    /\ UNCHANGED <<bleVars, upVars, now, obsBle, poolVars>>

\* read_gps_data up to the for loop, lines 288-292
ReadGpsData4G ==
    /\ pc = "top"
    /\ \E c \in Chunks : chunk' = c
    /\ pc' = "gps"
    /\ op' = "read"
    /\ seen' = [n |-> Len(chunk')]
    /\ UNCHANGED <<gpsVars, bleVars, upVars, now, obsGps, obsBle, poolVars, loopVars,
                   drained_at>>

\* one round of the for loop, lines 293-297
ReadSentence4G ==
    /\ pc = "gps"
    /\ chunk /= <<>>
    /\ _parse_gll_4g(Head(chunk))
    /\ chunk' = IF IsValidSentence(Head(chunk)) THEN <<>> ELSE Tail(chunk)
    /\ UNCHANGED <<pc, drained_at, loopVars>>

\* lines 327-347: the coordinates go into the record as numbers
generate_payload_4g ==
    [built |-> TRUE,
     device_id |-> <<"3">>,
     position_x |-> nmea_x,
     position_y |-> nmea_y,
     time_stamp |-> TimeStr(now),
     user_data |-> user_data]

\* main lines 394-396 and upload_data up to the call of
\* send_post_request, lines 353-364
main_check_4g ==
    /\ pc = "gps"
    /\ chunk = <<>>
    /\ current_time' = now
    /\ op' = "check"
    /\ IF ~upload_due(TRUE)
       THEN /\ pc' = "sleep"
            /\ seen' = [due |-> FALSE, sent |-> FALSE, payload |-> [built |-> FALSE]]
            /\ UNCHANGED attempt_at
       ELSE IF ~gps_data_valid \/ ~ble_data_received
            THEN /\ pc' = "sleep"
                 /\ seen' = [due |-> TRUE, sent |-> FALSE, payload |-> [built |-> FALSE]]
                 /\ UNCHANGED attempt_at
            ELSE /\ pc' = "post"
                 /\ seen' = [due |-> TRUE, sent |-> TRUE, payload |-> generate_payload_4g]
                 /\ attempt_at' = now
    /\ UNCHANGED <<last_upload_time, current_upload_interval, consecutive_failures,
                   max_upload_interval, streak, succeeded, payload>>
    /\ UNCHANGED <<gpsVars, bleVars, upVars, now, obsGps, obsBle, poolVars, chunk, drained_at>>

\* the AT commands of send_post_request in the order issued: connect (lines
\* 94-104), setup_http (lines 115-124), the two headers (lines 131, 135) and
\* lines 161-173
AtSteps ==
    << "AT", "AT+QICSGP", "AT+QIACT", "ATSHTTPSERVE=1", "ATSHTTPPARA=URL",
       "ATSHTTPPARA=PORT", "ATSHTTPROH=Content-Length", "ATSHTTPROH=Connection",
       "ATSHTTPACTION=1", "ATSHTTPDATA", "json_data", "ATSHTTPSEND" >>

\* a fresh LTE4GModule, lines 68-69 (upload_data makes one per call, line 362)
LteNew == [http_service_active |-> FALSE, connected |-> FALSE, log |-> <<>>, ret |-> FALSE]

\* send_at_command, lines 71-87: the command is written, and the result is
\* whether the expected response came before the timeout
send_at_command(lte, command, answered) ==
    [lte EXCEPT !.log = Append(@, [cmd |-> command, ok |-> answered])]

\* what an acknowledged command lets the module record: line 108 after
\* AT+QIACT=1, line 117 after ATSHTTPSERVE=1
lte_acknowledged(lte, command) ==
    IF command = "AT+QIACT" THEN [lte EXCEPT !.connected = TRUE]
    ELSE IF command = "ATSHTTPSERVE=1" THEN [lte EXCEPT !.http_service_active = TRUE]
    ELSE lte

RECURSIVE lte_try(_, _, _)
\* the try block, lines 139-176, from its i-th command on; the command
\* numbered fail_at is not answered, the step returns False and the block
\* is left by an exception (fail_at = 0: every command is answered)
lte_try(lte, i, fail_at) ==
    IF i > Len(AtSteps)
    THEN [lte EXCEPT !.ret = TRUE]
    ELSE IF i = fail_at
         THEN [send_at_command(lte, AtSteps[i], FALSE) EXCEPT !.ret = FALSE]
         ELSE lte_try(lte_acknowledged(send_at_command(lte, AtSteps[i], TRUE), AtSteps[i]),
                      i + 1, fail_at)

\* a finally block that closes nothing
lte_finally_skipped(lte) == lte

\* the finally block, lines 180-184; the answer to the close command is
\* not looked at
lte_finally(lte) ==
    IF lte.http_service_active
    THEN [send_at_command(lte, "ATSHTTPSERVE=0", TRUE) EXCEPT !.http_service_active = FALSE]
    ELSE lte

\* LTE4GModule.send_post_request on a fresh module, lines 137-184
send_post_request(fail_at) == lte_finally(lte_try(LteNew, 1, fail_at))

\* send_post_request returns (it catches every exception, lines 177-179):
\* lines 365-373 of upload_data, then line 397 of main
send_post_request_returns(success) ==
    /\ pc = "post"
    /\ pc' = "sleep"
    /\ op' = IF success THEN "success" ELSE "failed"
    /\ \E fail_at \in 0..Len(AtSteps) :
          /\ send_post_request(fail_at).ret = success
          /\ seen' = [ret |-> success, lte |-> send_post_request(fail_at)]
    /\ IF success
       THEN /\ gps_data_valid' = FALSE
            /\ ble_data_received' = FALSE
            /\ last_upload_time' = current_time
            /\ succeeded' = TRUE
       ELSE UNCHANGED <<gps_data_valid, ble_data_received, last_upload_time, succeeded>>
    /\ UNCHANGED <<nmea_x, nmea_y, last_x, last_y, gps_nmea_x, gps_nmea_y, last_gps_time>>
    /\ UNCHANGED <<user_data, list_data, data_len, up_len, upVars, now, obsGps, obsBle,
                   poolVars, chunk, drained_at, current_time, current_upload_interval,
                   consecutive_failures, max_upload_interval, streak, attempt_at,
                   payload>>

SendPostRequestReturns == \E success \in BOOLEAN : send_post_request_returns(success)

Next4G ==
    \/ ReadGpsData4G
    \/ ReadSentence4G
    \/ main_check_4g
    \/ SendPostRequestReturns
    \/ main_sleep
    \/ IrqWrite4G
    \/ TickMain

Spec4G == Init4G /\ [][Next4G]_vars

(***************************************************************************)
(* Properties of the parser (Spec).                                        *)
(***************************************************************************)
\* the state was produced by _parse_gll
Parsed == op = "parse"
ParsedVoid == Parsed /\ ~seen.short /\ ~seen.statusA
ParsedMalformed == Parsed /\ (seen.short \/ ~seen.numeric)

\* C1: while one valid sentence has been followed by void sentences only
\* (and no upload succeeded in between), gps_data_valid is true and
\* (nmea_x, nmea_y) are the coordinates of that valid sentence.
C1_ValidThenVoids ==
    run => gps_data_valid /\ <<nmea_x, nmea_y>> = fix

\* a void sentence was processed after a valid one on the prime meridian
C1_Witness == run /\ ParsedVoid /\ fix[1] = 0

\* C2 (as claimed): a well-formed void sentence processed after a valid
\* sentence was committed leaves gps_data_valid true and (nmea_x, nmea_y)
\* equal to the last committed fix, whatever that fix is.
C2_VoidFallsBack ==
    (ParsedVoid /\ seen.numeric /\ fix /= <<>>)
        => gps_data_valid /\ <<nmea_x, nmea_y>> = fix

\* C3: as long as no valid sentence was committed, gps_data_valid is false
\* and (nmea_x, nmea_y) keep their initial values.
C3_NoFixNoFallback ==
    fix = <<>> => ~gps_data_valid /\ nmea_x = 0 /\ nmea_y = 0

\* a void sentence was processed before any valid one
C3_Witness == fix = <<>> /\ ParsedVoid

\* C4 (as claimed): a malformed sentence (fewer than 7 fields, or a
\* non-numeric latitude or longitude) changes none of nmea_x, nmea_y,
\* last_x, last_y, gps_data_valid.
C4_MalformedChangesNothing ==
    [][ParsedMalformed' =>
          UNCHANGED <<nmea_x, nmea_y, last_x, last_y, gps_data_valid>>]_vars

\* C4 (amended): a malformed sentence changes none of nmea_x, nmea_y,
\* last_x, last_y; it leaves gps_data_valid unchanged too when it has fewer
\* than 7 fields or status 'A'.  (With 7 fields and another status it is
\* handled as a void sentence, whatever its coordinate fields hold.)
C4_MalformedKeepsFix ==
    [][ParsedMalformed' =>
          /\ UNCHANGED <<nmea_x, nmea_y, last_x, last_y>>
          /\ (seen'.short \/ seen'.statusA) => UNCHANGED gps_data_valid]_vars

\* a status-'A' sentence with a numeric latitude and a non-numeric
\* longitude was discarded while another fix was held
C4_Witness ==
    /\ Parsed /\ seen.statusA /\ ~seen.numeric /\ seen.latNumeric
    /\ fix /= <<>> /\ gps_data_valid

\* the state was produced by parsing a valid sentence carrying
\* 3723.2475,N and 12158.3416,W
ParsedExample ==
    Parsed /\ ~seen.short /\ seen.statusA /\ seen.numeric /\ fix = FixOf(ExampleSentence)

\* C5 (as claimed): that sentence commits latitude 37.387458 and longitude
\* -121.972693 (as "%.6f" prints them) with gps_data_valid true.
C5_DecimalDegrees ==
    ParsedExample =>
        /\ gps_data_valid
        /\ Fmt6(nmea_y) = <<"3", "7", ".", "3", "8", "7", "4", "5", "8">>
        /\ Fmt6(nmea_x) = <<"-", "1", "2", "1", ".", "9", "7", "2", "6", "9", "3">>

\* C5 (amended): that sentence commits the field values as they are
\* written, signed by the hemisphere: latitude 3723.247500 and longitude
\* -12158.341600, with gps_data_valid true.
C5_FieldsCommittedRaw ==
    ParsedExample =>
        /\ gps_data_valid
        /\ Fmt6(nmea_y) = <<"3", "7", "2", "3", ".", "2", "4", "7", "5", "0", "0">>
        /\ Fmt6(nmea_x) =
             <<"-", "1", "2", "1", "5", "8", ".", "3", "4", "1", "6", "0", "0">>

C5_Witness == ParsedExample

(***************************************************************************)
(* Properties of the ring (SpecRing).                                      *)
(***************************************************************************)
\* the n samples accepted last before ordinal `at`, oldest first
Newest(at, n) == [i \in 1..n |-> at - n + i]

\* the state was produced by upload_data, which built a record
Built == op = "upload" /\ seen.payload.built

\* C6: at an emission user_data is the list_len samples accepted last,
\* oldest first; a record carries the payload_limit newest samples of the
\* last emission in the same order.
C6_ProducerOrder ==
    /\ op = "emit" => user_data = Newest(accepted, list_len)
    /\ Built => seen.payload.user_data = Newest(emit_at, payload_limit)

\* a record was built from an emission made with the cursor inside the
\* ring (data_len - up_len is data_len at the last emission)
C6_Witness == Built /\ emissions >= 1 /\ (data_len - up_len) % list_len /= 0

\* C7 (as claimed): every sample of a record handed to the transport is
\* among the list_len samples accepted last when the record is built.
C7_NothingOlderThanCapacity ==
    (Built /\ seen.sent) =>
        \A i \in DOMAIN seen.payload.user_data :
            seen.payload.user_data[i] > accepted - list_len

\* C9 (as claimed): the k-th emission happens on the (up_len_limit * k)-th
\* accepted sample.
C9_EveryBatchSize ==
    op = "emit" => accepted = up_len_limit * emissions

\* C9 (amended): the k-th emission since the ring was last empty happens on
\* the (list_len + up_len_limit * k)-th sample accepted since then.
C9_FillThenEveryBatchSize ==
    op = "emit" => data_len = list_len + up_len_limit * emissions

\* the second emission
C9_Witness == op = "emit" /\ emissions = 2

(***************************************************************************)
(* Properties of GPS_WIFI_Blue_4_ (SpecB4).                                *)
(***************************************************************************)
\* the state was produced by upload_data, whose generate_payload found a
\* batch at its availability check
ReadTwice == op = "upload_b4" /\ seen.check.some

\* C8 (as claimed): of two reads of the ready batch with no push in
\* between, the first returns the batch and the second returns nothing.
C8_SecondReadEmpty ==
    ReadTwice => ~seen.payload.user_data.some

\* C10 (as claimed): a write event whose payload length is not a multiple
\* of 4 leaves pool_data.buffer and pool_data.index unchanged.
C10_OddLengthRejected ==
    [][(op' = "write_b4" /\ seen'.len % 4 /= 0)
          => UNCHANGED <<pool_buffer, pool_index>>]_vars

\* C11 (as claimed): once get_new_n items have been appended, get_new
\* returns the get_new_n items appended last, oldest first, wherever the
\* write cursor stands.
C11_NewestFour ==
    Len(pushed) = get_new_n =>
        get_new(get_new_n) = [some |-> TRUE, items |-> pushed]

(***************************************************************************)
(* main(): the upload interval and the failure counter                     *)
(***************************************************************************)
RECURSIVE Pow2(_)
Pow2(k) == IF k = 0 THEN 1 ELSE 2 * Pow2(k - 1)

\* min(min_upload_interval * 2^k, max_upload_interval)
Ladder(k) == Min(min_upload_interval * Pow2(k), max_upload_interval)

\* C12: at every point of the main loop current_upload_interval is
\* min(min_upload_interval * 2^k, max_upload_interval) for some k >= 0.
C12_IntervalOnLadder ==
    \E k \in 0..MaxStreak : current_upload_interval = Ladder(k)

\* the last doubling went past the cap and was cut to it
C12_Witness ==
    /\ op \in {"check", "failed"}
    /\ streak = MaxStreak
    /\ current_upload_interval = max_upload_interval
    /\ max_upload_interval /= min_upload_interval * Pow2(4)

\* C13: counting from consecutive_failures = 0, the interval is doubled
\* (up to the cap) on every third upload_data call in a row that returns
\* False and the counter is then 0 again; after one or two such calls the
\* interval is what it was.
C13_DoubledOnThird ==
    /\ consecutive_failures = streak % max_consecutive_failures
    /\ current_upload_interval = Ladder(streak \div max_consecutive_failures)

\* the third failure in a row has just doubled the interval
C13_Witness ==
    /\ op = "failed"
    /\ streak = max_consecutive_failures
    /\ consecutive_failures = 0
    /\ current_upload_interval = 2 * min_upload_interval

\* C14 (as claimed): an iteration that calls http_post does so at least
\* current_upload_interval after the iteration that called it last, also
\* when that call failed.
C14_AttemptsSpaced ==
    [][(op' = "check" /\ seen'.sent /\ attempt_at >= 0)
          => Tenths(now - attempt_at) >= current_upload_interval]_vars

C16_FailureChangesNothing ==
    [][((op' = "check" /\ seen'.due /\ ~seen'.sent) \/ op' = "failed")
          => UNCHANGED <<gps_data_valid, ble_data_received, user_data,
                         nmea_x, nmea_y, last_x, last_y>>]_vars

\* a request has failed while a fix and a batch were waiting
C16_Witness ==
    /\ op = "failed"
    /\ gps_data_valid /\ ble_data_received
    /\ user_data /= <<>>

\* C17: http_post is called only with a record built while both flags
\* were set; with a flag down upload_data returns without calling it.
C17_SendsOnlyWhenReady ==
    [][op' = "check"
          => /\ seen'.sent => /\ gps_data_valid /\ ble_data_received
                              /\ seen'.payload.built
                              /\ seen'.payload = generate_payload
             /\ (~gps_data_valid \/ ~ble_data_received)
                   => ~seen'.sent /\ pc' = "sleep"]_vars

\* both outcomes have happened: a request sent with both flags set, and an
\* iteration that was due with a batch but no fix
C17_Witness ==
    /\ op = "check" /\ seen.due /\ ~seen.sent
    /\ ble_data_received /\ ~gps_data_valid
    /\ attempt_at >= 0

\* C19 (as claimed): an iteration that is due but sends nothing, because
\* the position is not valid or no batch is ready, changes neither
\* consecutive_failures nor current_upload_interval.
C19_NoSendNoBackoff ==
    [][(op' = "check" /\ ~seen'.sent)
          => UNCHANGED <<consecutive_failures, current_upload_interval>>]_vars

(***************************************************************************)
(* GPS_WIFI_Blue_4_: what generate_payload puts in the record              *)
(***************************************************************************)
\* generate_payload has returned a record
BuiltB4 == op = "upload_b4" /\ seen.payload.built

\* C18 (as claimed): generate_payload returns a record only while
\* gps_data_valid is set, so never one with the initial coordinates.
C18_NoRecordWithoutFix ==
    BuiltB4 => gps_data_valid

\* the clock readings a timestamp may have been formatted from: the
\* reading of the call and the one before it
FreshReadings == { t \in 0..now : now - t <= 1 }

\* C20 (as claimed): the time_stamp of a record is the formatting of a
\* clock reading at most one second before the reading of the call.
C20_TimestampFresh ==
    BuiltB4 => \E t \in FreshReadings : seen.payload.time_stamp = TimeStr(t)

(***************************************************************************)
(* The write-event handler runs in interrupt context                       *)
(***************************************************************************)
\* a write event has just given a sample to the consumer side
SampleAccepted ==
    \/ op \in {"write", "emit"}
    \/ op = "write_b4" /\ seen.stored

\* C21 (as claimed): a write event that accepts a sample neither prints
\* nor runs rgb_flash (LED output and sleeps).
C21_PushPathQuiet ==
    SampleAccepted => ~seen.printed /\ ~seen.flashed

(***************************************************************************)
(* The record in flight                                                    *)
(***************************************************************************)
\* C22: from the moment generate_payload has returned the record until
\* http_post is done with it, no step (a write event, an emission that
\* replaces user_data, the clock) changes the record, and the record
\* http_post was given is the one that was built.
C22_RecordInFlightFixed ==
    [][pc = "post"
          => IF pc' = "post" THEN payload' = payload
                             ELSE seen'.record = payload]_vars

\* http_post is done and, while it ran, an emission replaced user_data
C22_Witness ==
    /\ op \in {"success", "failed"}
    /\ seen.record.user_data /= PayloadData(user_data)


\* the positions of the body of main's while loop
LoopPositions == {"top", "gps", "post", "sleep"}

\* a step of the loop has just failed: the transport, the construction of
\* the record, or the reconnection
FailureAbsorbed ==
    \/ op \in {"failed", "reconnect"}
    \/ op = "check" /\ seen.due /\ ~seen.sent

\* C23: the main loop of GPS_WIFI_Blue_3.py never ends: the loop is always at
\* one of its positions, and right after any failure (a refused or raising
\* reconnection, a failed upload) it is at its closing sleep, from which the
\* next iteration can start.
C23_LoopNeverEnds ==
    /\ pc \in LoopPositions
    /\ FailureAbsorbed => pc = "sleep" /\ ENABLED main_sleep

C23_Witness ==
    /\ op = "reconnect"
    /\ seen.outcome = "raised"
    /\ consecutive_failures > 0
    /\ pc = "sleep"


\* C24 (as claimed): read_gps_data of GPS_WIFI_Blue_3 (window 1 s) and of
\* GPS_WIFI_Blue_4_ (window 2 s) reads a chunk from the positioning stream
\* only when at least the window has passed since it last read one, whatever
\* the sentences of that earlier chunk were.
C24_DrainsOncePerWindow ==
    [][(op' = "read" /\ seen'.n > 0 /\ seen'.last >= 0)
          => now - seen'.last >= seen'.window]_vars


\* the valid sentences of a chunk, in the order received
ValidIn(c) == { i \in DOMAIN c : IsValidSentence(c[i]) }

\* the last valid sentence of a chunk that has one
LastValid(c) == c[CHOOSE i \in ValidIn(c) : \A j \in ValidIn(c) : j <= i]

\* C25 (as claimed): when the for loop of read_gps_data ends on a chunk of
\* which several sentences are valid, the committed fix and the
\* last-known-good fix are those of the last valid sentence of the chunk.
\* (The loop skips invalid sentences, so when it ends every valid sentence
\* of the chunk is still in the part not yet consumed.)
C25_LastValidCommitted ==
    [][(pc = "gps" /\ chunk /= <<>> /\ chunk' = <<>>
           /\ Cardinality(ValidIn(chunk)) > 1)
          => /\ <<nmea_x', nmea_y'>> = FixOf(LastValid(chunk))
             /\ <<last_x', last_y'>> = FixOf(LastValid(chunk))]_vars


\* C26 (as claimed): in GPS_WIFI_Blue_2 a sentence of fewer than 7 fields
\* is discarded on its own: parsing it changes no fix state and leaves the
\* rest of the drained chunk to be parsed, so that a later valid sentence of
\* the chunk is still committed.
C26_ShortDiscardedAlone ==
    [][(op' = "parse" /\ pc = "gps" /\ chunk /= <<>> /\ Short(Head(chunk)))
          => /\ UNCHANGED gpsVars
             /\ chunk' = Tail(chunk)]_vars


\* C27: in GPS_WIFI_Blue_3, after a successful upload no send is attempted
\* until the parser has set gps_data_valid again and the write handler has
\* emitted again.  Step by step: a success leaves both flags down; only the
\* parser, on a valid sentence or a void one with a fallback, raises
\* gps_data_valid; only an emission raises ble_data_received; and a send is
\* attempted only with both flags up.
C27_NoSendBeforeFreshData ==
    [][/\ op' = "success" => ~gps_data_valid' /\ ~ble_data_received'
       /\ (gps_data_valid' /\ ~gps_data_valid)
             => /\ op' = "parse"
                /\ ~seen'.short
                /\ seen'.statusA => seen'.numeric
       /\ (ble_data_received' /\ ~ble_data_received) => op' = "emit"
       /\ (op' = "check" /\ seen'.sent)
             => gps_data_valid /\ ble_data_received]_vars

\* a send attempted after an earlier upload has succeeded
C27_Witness ==
    /\ op = "check" /\ seen.sent
    /\ last_upload_time > 0


\* both flags are up, and the tick on which the interval will have elapsed
\* lies within the clock readings explored
ReadyToUpload ==
    /\ gps_data_valid /\ ble_data_received
    /\ Tenths(MaxClock - last_upload_time) >= current_upload_interval

\* C28: in GPS_WIFI_Blue_3, with the main loop and the clock running, WiFi
\* connected and the transport succeeding: once gps_data_valid and
\* ble_data_received are both true, eventually an upload succeeds and both
\* flags are cleared, whatever failures and doublings came before.
C28_EventuallyUploaded ==
    ReadyToUpload ~> (op = "success" /\ ~gps_data_valid /\ ~ble_data_received)

\* both flags up after the interval has been doubled
C28_Witness ==
    /\ ReadyToUpload
    /\ current_upload_interval > min_upload_interval
    /\ pc /= "post"


\* the HTTP service was opened during the call: ATSHTTPSERVE=1 was answered
ServiceOpened(lte) ==
    \E i \in DOMAIN lte.log : lte.log[i] = [cmd |-> "ATSHTTPSERVE=1", ok |-> TRUE]

\* the close command is the last command the call issued
CloseIssued(lte) ==
    /\ lte.log /= <<>>
    /\ lte.log[Len(lte.log)].cmd = "ATSHTTPSERVE=0"

\* C29: when send_post_request of GPS_4G_Blue returns, after a success or
\* after any AT step that failed, http_service_active is false, and if the
\* HTTP service was opened during the call the close command ATSHTTPSERVE=0
\* has been issued.
C29_ServiceReleased ==
    op \in {"success", "failed"}
        => /\ ~seen.lte.http_service_active
           /\ ServiceOpened(seen.lte) => CloseIssued(seen.lte)

\* a call that failed after the service had been opened
C29_Witness ==
    /\ op = "failed"
    /\ ServiceOpened(seen.lte)
    /\ CloseIssued(seen.lte)


\* C30 (as claimed): in GPS_WIFI_Blue_3 the interrupt handler writes nothing
\* but the ring: a write event leaves the position fix, gps_data_valid, the
\* upload state and ble_data_received as they were, these being written by
\* the main loop only.
C30_HandlerWritesRingOnly ==
    [][op' \in {"write", "emit"}
          => UNCHANGED <<nmea_x, nmea_y, last_x, last_y, gps_data_valid,
                         ble_data_received, last_upload_time,
                         current_upload_interval, consecutive_failures>>]_vars


\* C31 (as claimed): in GPS_WIFI_Blue_3, when the write handler has emitted
\* a new batch while the upload of the previous one was in flight (user_data
\* no longer is what the record in flight carries) and that upload succeeds,
\* ble_data_received is still true when upload_data returns.
C31_EmissionSurvivesClear ==
    [][(pc = "post" /\ op' = "success"
           /\ payload.user_data /= PayloadData(user_data))
          => ble_data_received']_vars


\* C32: in GPS_WIFI_Blue_3 and GPS_WIFI_Blue_2 an emission is delivered
\* to the transport with success at most once: the record handed to
\* http_post never carries the samples of the last record for which
\* http_post returned True.
C32_DeliveredAtMostOnce ==
    pc = "post" => payload.user_data /= delivered

\* a record in flight after an earlier one has been delivered
C32_Witness ==
    /\ pc = "post"
    /\ delivered /= <<>>


\* C33: in GPS_WIFI_Blue_3, after any sequence of write events (accepted,
\* non-ASCII, or failing with another error) the ring stays within its
\* capacity and consistent with its counters whenever the handler is not
\* running: len(list_data) = min(data_len, list_len) <= list_len and
\* 0 <= up_len < the emission threshold.
C33_RingConsistent ==
    /\ Len(list_data) = Min(data_len, list_len)
    /\ Len(list_data) <= list_len
    /\ 0 <= up_len
    /\ up_len < up_len_limit

\* the ring has wrapped and the write that completed a batch has emitted
C33_Witness ==
    /\ op = "emit"
    /\ data_len > list_len
    /\ emissions > 1


\* C34 (as claimed): in GPS_WIFI_Blue_4_, whatever write events arrive
\* between the availability check of generate_payload and the read that
\* fills user_data, a call whose check passed returns a record whose
\* user_data is a batch of get_new_n samples, never None.
C34_BatchAfterCheck ==
    (op = "upload_b4" /\ seen.check.some)
        => /\ seen.payload.built
           /\ seen.payload.user_data.some
           /\ Len(seen.payload.user_data.items) = get_new_n


\* C35 (as claimed): in GPS_WIFI_Blue_4_, a call of upload_data from the
\* main loop with WiFi connected for which pool_data.get_new() yields a
\* batch returns True when the transport works.
C35_UploadReturnsTrue ==
    (op = "upload_b4" /\ seen.payload.built /\ seen.payload.user_data.some)
        => seen.ret


\* the elements of a sequence
Elems(q) == { q[i] : i \in DOMAIN q }

\* C36 (as claimed): in GPS_WIFI_Blue_2 the sample of every ASCII-decodable
\* write event is in list_data when the handler returns, the sample of the
\* write event that triggers an emission included.
C36_NoSampleDropped ==
    op \in {"write", "emit"} => seen.sample \in Elems(list_data)


\* C37 (as claimed): in GPS_WIFI_Blue_4_ a write event with an empty
\* payload ingests nothing: pool_data.buffer and pool_data.index are as
\* they were before it.
C37_EmptyWriteIgnored ==
    [][(op' = "write_b4" /\ seen'.len = 0)
          => UNCHANGED <<pool_buffer, pool_index>>]_vars


\* C38: in GPS_WIFI_Blue_3, in every state the main loop can observe,
\* ble_data_received implies that user_data is a complete snapshot of
\* list_len samples, and every record handed to the transport carries
\* payload_limit samples.
C38_SnapshotComplete ==
    /\ ble_data_received => Len(user_data) = list_len
    /\ pc = "post" => Len(payload.user_data) = payload_limit

\* a record is with the transport while a later emission stands ready
C38_Witness ==
    /\ pc = "post"
    /\ ble_data_received
    /\ emissions > 1
    /\ Len(payload.user_data) = payload_limit


\* C39 (as claimed): every record built by generate_payload carries a
\* time_stamp that is a formatted clock reading, never the empty string
\* the cache holds at start-up, also when the clock starts at 0 at boot.
C39_TimestampNeverEmpty ==
    BuiltB4 => seen.payload.time_stamp /= <<>>


\* C40: in GPS_WIFI_Blue_3, after any sequence of parser calls and upload
\* attempts, whenever the parser is not running the reported position is
\* the last-known-good one, (nmea_x, nmea_y) = (last_x, last_y), and while
\* gps_data_valid is set it is the position of the valid sentence
\* committed last.
C40_ReportedIsLastGood ==
    /\ <<nmea_x, nmea_y>> = <<last_x, last_y>>
    /\ gps_data_valid => fix /= <<>> /\ <<nmea_x, nmea_y>> = fix

\* a void sentence has restored the position after a successful upload
\* had cleared the flag
C40_Witness ==
    /\ ParsedVoid
    /\ gps_data_valid
    /\ ~run
    /\ fix /= <<>>

====
